---- MODULE Spec2Model ----
(***************************************************************************)
(* A model of gateway-addon-node's two leaf classes:                       *)
(*   Action   - status lifecycle and device.actionNotify                   *)
(*   Property - validation, coercion, change notification (property.ts)    *)
(*                                                                         *)
(* JavaScript values are tagged records, so that values of different       *)
(* types can be compared:  t is the result of typeof (null and NaN have    *)
(* tags of their own), and objects carry a reference, so that equality of  *)
(* two object values is identity of reference.                             *)
(***************************************************************************)
EXTENDS Integers, Sequences, FiniteSets

\* ------------------------------------------------------------------ bounds

\* Numbers passed to the property are the integers -1 .. MaxNum.
MaxNum == 2
\* The wall clock runs over 0 .. MaxClock.
MaxClock == 3
\* An action receives at most MaxCalls start()/finish() calls.
MaxCalls == 3
\* device.notifyPropertyChanged is counted up to MaxNotify.
MaxNotify == 2
\* Fractions passed to the property are 0.1 .. MaxTenths / 10.
MaxTenths == 6

\* --------------------------------------------------------- JavaScript values

Undefined == [t |-> "undefined"]
Null == [t |-> "null"]
NaN == [t |-> "NaN"]
Bool(b) == [t |-> "boolean", b |-> b]
Num(n) == [t |-> "number", n |-> n]
Str(s) == [t |-> "string", s |-> s]
Obj(r) == [t |-> "object", ref |-> r]

\* ------------------------------------------------------- IEEE 754 binary64

\* The numbers that are not integers are doubles.
\* A positive double is m * 2^e with a 53-bit significand m, kept in two
\* limbs m = hi * 2^27 + lo (2^25 <= hi < 2^26, lo < 2^27).
Limb == 134217728
HiMin == 33554432

Dbl(hi, lo, e) == [t |-> "number", hi |-> hi, lo |-> lo, e |-> e]

IsDbl(x) == x.t = "number" /\ "hi" \in DOMAIN x

RECURSIVE Pow2(_)
Pow2(k) ==
  IF k = 0 THEN 1
  ELSE IF k % 2 = 1 THEN 2 * Pow2(k - 1)
  ELSE LET h == Pow2(k \div 2) IN h * h

\* The double of a positive integer n < 2^26: n shifted up to 53 bits.
FromInt(n) ==
  LET k == CHOOSE j \in 0 .. 25 :
             HiMin <= n * Pow2(j) /\ n * Pow2(j) < 2 * HiMin
  IN  Dbl(n * Pow2(k), 0, 0 - 27 - k)

\* Two-limb arithmetic on significands and remainders (below 2^55).
LimbLess(a, b) == a[1] < b[1] \/ (a[1] = b[1] /\ a[2] < b[2])

LimbSub(a, b) ==
  IF a[2] >= b[2] THEN <<a[1] - b[1], a[2] - b[2]>>
  ELSE <<a[1] - b[1] - 1, a[2] + Limb - b[2]>>

LimbDouble(a) ==
  IF 2 * a[2] >= Limb THEN <<2 * a[1] + 1, 2 * a[2] - Limb>>
  ELSE <<2 * a[1], 2 * a[2]>>

LimbShiftIn(q, bit) ==
  IF 2 * q[2] + bit >= Limb THEN <<2 * q[1] + 1, 2 * q[2] + bit - Limb>>
  ELSE <<2 * q[1], 2 * q[2] + bit>>

LimbIncrement(q) == IF q[2] + 1 = Limb THEN <<q[1] + 1, 0>> ELSE <<q[1], q[2] + 1>>

LimbOdd(q) == q[2] % 2 = 1

\* One step of the long division of r by d: the next quotient bit appended
\* to q, and twice the remainder.  qr is <<q, r>>.
DivideBit(qr, d) ==
  IF LimbLess(qr[2], d)
  THEN <<LimbShiftIn(qr[1], 0), LimbDouble(qr[2])>>
  ELSE <<LimbShiftIn(qr[1], 1), LimbDouble(LimbSub(qr[2], d))>>

\* n steps of the long division, the first half of them and then the rest.
RECURSIVE DivideBits(_, _, _)
DivideBits(qr, d, n) ==
  IF n = 1 THEN DivideBit(qr, d)
  ELSE LET half == DivideBits(qr, d, n \div 2)
       IN  IF half[1][1] >= 0 THEN DivideBits(half, d, n - n \div 2)
           ELSE half

\* a / b for positive doubles, rounded to the nearest double, ties to even.
Divide(a, b) ==
  LET ma == <<a.hi, a.lo>>
      mb == <<b.hi, b.lo>>
      small == LimbLess(ma, mb)
      r0 == IF small THEN LimbDouble(ma) ELSE ma
      e0 == IF small THEN a.e - b.e - 53 ELSE a.e - b.e - 52
      qr == DivideBits(<<(<<0, 0>>), r0>>, mb, 53)
      q == qr[1]
      r == qr[2]
      up == LimbLess(mb, r) \/ (r = mb /\ LimbOdd(q))
      q1 == IF up THEN LimbIncrement(q) ELSE q
  IN  IF q1[1] >= 2 * HiMin THEN Dbl(HiMin, 0, e0 + 1)
      ELSE Dbl(q1[1], q1[2], e0)

\* The double a decimal literal with one fractional digit denotes: p / 10,
\* correctly rounded.
FromTenths(p) == Divide(FromInt(p), FromInt(10))

\* The decimal fractions 0.1 .. MaxTenths / 10 as doubles.
Fractions == [p \in 1 .. MaxTenths |-> FromTenths(p)]

\* a < b for positive doubles.
DblLess(a, b) ==
  a.e < b.e \/ (a.e = b.e /\ LimbLess(<<a.hi, a.lo>>, <<b.hi, b.lo>>))

\* a < b for numbers: integers, or positive doubles.
NumLess(a, b) ==
  IF ~IsDbl(a) /\ ~IsDbl(b) THEN a.n < b.n
  ELSE IF ~IsDbl(a) /\ a.n <= 0 THEN TRUE
  ELSE IF ~IsDbl(b) /\ b.n <= 0 THEN FALSE
  ELSE DblLess(IF IsDbl(a) THEN a ELSE FromInt(a.n),
               IF IsDbl(b) THEN b ELSE FromInt(b.n))

\* ------------------------------------------------------------- conversions

\* x === y: the same value, except that NaN is identical to nothing.
StrictEquals(x, y) == x = y /\ x # NaN

\* !!x: false for undefined, null, false, 0, NaN and "", true otherwise.
Truthy(x) ==
  CASE x.t = "undefined" -> FALSE
    [] x.t = "null" -> FALSE
    [] x.t = "NaN" -> FALSE
    [] x.t = "boolean" -> x.b
    [] x.t = "number" -> (IF IsDbl(x) THEN TRUE ELSE x.n # 0)
    [] x.t = "string" -> x.s # ""
    [] OTHER -> TRUE

Digit(d) ==
  CASE d = 0 -> "0" [] d = 1 -> "1" [] d = 2 -> "2" [] d = 3 -> "3"
    [] d = 4 -> "4" [] d = 5 -> "5" [] d = 6 -> "6" [] d = 7 -> "7"
    [] d = 8 -> "8" [] d = 9 -> "9"

RECURSIVE Digits(_)
Digits(n) == IF n < 10 THEN Digit(n) ELSE Digits(n \div 10) \o Digit(n % 10)

\* Number.prototype.toString for an integer.
NumberToString(n) == IF n < 0 THEN "-" \o Digits(0 - n) ELSE Digits(n)

\* The shortest decimal that reads back as the double: the fraction it was
\* written as.
DblToString(x) ==
  LET p == CHOOSE q \in 1 .. MaxTenths : Fractions[q] = x
  IN  IF p % 10 = 0 THEN Digits(p \div 10)
      ELSE Digits(p \div 10) \o "." \o Digit(p % 10)

\* `${x}`: the string rendering of a template literal.
TemplateString(x) ==
  CASE x.t = "undefined" -> "undefined"
    [] x.t = "null" -> "null"
    [] x.t = "NaN" -> "NaN"
    [] x.t = "boolean" -> (IF x.b THEN "true" ELSE "false")
    [] x.t = "number" ->
         (IF IsDbl(x) THEN DblToString(x) ELSE NumberToString(x.n))
    [] x.t = "string" -> x.s
    [] OTHER -> "[object Object]"

\* The integers a modelled string can denote.
Denotable == (0 - MaxNum - 1) .. (MaxNum + 1)

\* Number(s) for a string: "" is 0, a decimal numeral its value, else NaN.
StringToNumber(s) ==
  IF s = "" THEN Num(0)
  ELSE IF \E n \in Denotable : NumberToString(n) = s
       THEN Num(CHOOSE n \in Denotable : NumberToString(n) = s)
       ELSE NaN

\* ToNumber(x), as applied by <, > and / to a non-number operand.
ToNumber(x) ==
  CASE x.t = "undefined" -> NaN
    [] x.t = "null" -> Num(0)
    [] x.t = "NaN" -> NaN
    [] x.t = "boolean" -> (IF x.b THEN Num(1) ELSE Num(0))
    [] x.t = "number" -> x
    [] x.t = "string" -> StringToNumber(x.s)
    [] OTHER -> NaN

\* x <= y in the place of x < y.
LessThan_OrEqual(x, y) ==
  LET a == ToNumber(x)
      b == ToNumber(y)
  IN  a # NaN /\ b # NaN /\ ~NumLess(b, a)

\* x < y with y a number: false as soon as an operand is NaN.
LessThan(x, y) ==
  LET a == ToNumber(x)
      b == ToNumber(y)
  IN  a # NaN /\ b # NaN /\ NumLess(a, b)

\* x > y with y a number.
GreaterThan(x, y) ==
  LET a == ToNumber(x)
      b == ToNumber(y)
  IN  a # NaN /\ b # NaN /\ NumLess(b, a)

\* x != undefined (loose): false for undefined and for null.
NotNullish(x) == x # Undefined /\ x # Null

\* x == y (loose): null and undefined equal each other and nothing else;
\* values of one type are compared as by ===; a boolean or a string is
\* converted to a number against a primitive of another type; an object is
\* converted to its string against a string and equals no number or boolean.
LooseEquals(x, y) ==
  IF ~NotNullish(x) \/ ~NotNullish(y) THEN ~NotNullish(x) /\ ~NotNullish(y)
  ELSE IF x = NaN \/ y = NaN THEN FALSE
  ELSE IF x.t = y.t THEN x = y
  ELSE IF x.t = "object" THEN y.t = "string" /\ TemplateString(x) = y.s
  ELSE IF y.t = "object" THEN x.t = "string" /\ TemplateString(y) = x.s
  ELSE ToNumber(x) # NaN /\ ToNumber(x) = ToNumber(y)

\* ------------------------------------------------------------------ state

\* status, timeRequested, timeCompleted, input: the fields of the Action.
\* now: the wall clock.  calls: the start()/finish() calls made so far.
\* actionNotified: what the device saw at each device.actionNotify(this).
\* description: the object the last asActionDescription() returned.
VARIABLES status, timeRequested, timeCompleted, input, now, calls,
          actionNotified, description

actionVars == <<status, timeRequested, timeCompleted, input, now, calls,
                actionNotified, description>>

\* type, minimum, maximum, multipleOf, enum, readOnly: the description fields
\* the write path reads.  value, prevGetValue: the runtime state.
\* notifyCount: the device.notifyPropertyChanged(this) invocations so far.
\* call: the last call made on the property, with its argument, how its
\* promise was settled (or what it returned) and what the device saw during it.
VARIABLES type, minimum, maximum, multipleOf, enum, readOnly,
          value, prevGetValue, notifyCount, call

descrVars == <<type, minimum, maximum, multipleOf, enum, readOnly>>

propertyVars == <<type, minimum, maximum, multipleOf, enum, readOnly,
                  value, prevGetValue, notifyCount, call>>

\* tasks: for each caller, the call it is inside, if any: the operation, its
\* argument, the statement it executes next and its local variables.
\* tickets: the number of calls issued so far.  lastOk: the setValue call
\* issued last among those that have resolved, with the value it resolved to.
VARIABLES tasks, tickets, lastOk

stepVars == <<tasks, tickets, lastOk>>

vars == <<actionVars, propertyVars, stepVars>>

\* The callers that hold a reference to the property and the action.
Callers == {"a", "b"}

\* A caller that is inside no call.
Idle ==
  [op |-> "none", arg |-> Undefined, pc |-> 0, ticket |-> 0,
   oldValue |-> Undefined, seen |-> <<>>]

\* No call has been issued.
NoCalls ==
  /\ tasks = [c \in Callers |-> Idle]
  /\ tickets = 0
  /\ lastOk = [ticket |-> 0, arg |-> Undefined, ret |-> Undefined,
               by |-> "none"]

\* ---------------------------------------------------------------- Action

\* utils.timestamp(): the string for the current instant of the wall clock.
timestamp == [t |-> "string", at |-> now]

\* The inputs an action is constructed with: absent, null, or a payload.
ActionInputs == {Undefined, Null, Obj(1)}

\* new Action(id, device, name, input) and the field initialisers.
ActionInit ==
  /\ now \in 0 .. 1
  /\ status = "created"
  /\ timeRequested = [t |-> "string", at |-> now]
  /\ timeCompleted = Undefined
  /\ input \in ActionInputs
  /\ calls = <<>>
  /\ actionNotified = <<>>
  /\ description = Undefined

\* A device.actionNotify(this) that is never made.
actionNotify_Dropped(st, tc) == actionNotified

\* device.actionNotify(this): the device sees the action as it is now.
actionNotify(st, tc) == Append(actionNotified, [status |-> st, timeCompleted |-> tc])

\* start() that acts on a freshly created action only.
start_Guarded ==
  /\ status = "created"
  /\ Len(calls) < MaxCalls
  /\ status' = "pending"
  /\ actionNotified' = actionNotify("pending", timeCompleted)
  /\ calls' = Append(calls, "start")
  /\ UNCHANGED <<timeRequested, timeCompleted, input, now, description>>
  /\ UNCHANGED <<propertyVars, stepVars>>

\* Action.start()
start ==
  /\ Len(calls) < MaxCalls
  /\ status' = "pending"
  /\ actionNotified' = actionNotify("pending", timeCompleted)
  /\ calls' = Append(calls, "start")
  /\ UNCHANGED <<timeRequested, timeCompleted, input, now, description>>
  /\ UNCHANGED <<propertyVars, stepVars>>

\* finish() that leaves timeCompleted as it is.
finish_NoTimestamp ==
  /\ Len(calls) < MaxCalls
  /\ status' = "completed"
  /\ actionNotified' = actionNotify("completed", timeCompleted)
  /\ calls' = Append(calls, "finish")
  /\ UNCHANGED <<timeRequested, timeCompleted, input, now, description>>
  /\ UNCHANGED <<propertyVars, stepVars>>

\* Action.finish()
finish ==
  /\ Len(calls) < MaxCalls
  /\ status' = "completed"
  /\ timeCompleted' = timestamp
  /\ actionNotified' = actionNotify("completed", timestamp)
  /\ calls' = Append(calls, "finish")
  /\ UNCHANGED <<timeRequested, input, now, description>>
  /\ UNCHANGED <<propertyVars, stepVars>>

\* Time passes between two calls.
Tick ==
  /\ now < MaxClock
  /\ now' = now + 1
  /\ UNCHANGED <<status, timeRequested, timeCompleted, input, calls,
                 actionNotified, description>>
  /\ UNCHANGED <<propertyVars, stepVars>>

\* The keys of the object asActionDescription() builds.
DescriptionKeys(inp, tc) ==
  {"name", "timeRequested", "status"}
    \cup (IF inp # Null THEN {"input"} ELSE {})
    \cup (IF tc # Null THEN {"timeCompleted"} ELSE {})

\* The object asActionDescription() builds, as a function of its keys.
ActionDescription ==
  [k \in DescriptionKeys(input, timeCompleted) |->
     CASE k = "name" -> Str("name")
       [] k = "timeRequested" -> timeRequested
       [] k = "status" -> Str(status)
       [] k = "input" -> input
       [] k = "timeCompleted" -> timeCompleted]

\* Action.asActionDescription()
asActionDescription ==
  /\ description' = ActionDescription
  /\ UNCHANGED <<status, timeRequested, timeCompleted, input, now, calls,
                 actionNotified>>
  /\ UNCHANGED <<propertyVars, stepVars>>

\* -------------------------------------------------------------- Property

\* A JavaScript array of strings.
Arr(items) == [t |-> "object", items |-> items]

\* The values passed to the property's methods.
Numbers == (0 - 1) .. MaxNum

Values ==
  {Undefined, Bool(FALSE), Bool(TRUE), Str(""), Str("1"), Str("x"), NaN,
   Obj(1)}
    \cup {Num(n) : n \in Numbers}

\* The property descriptions a property is constructed with.
Types == {"boolean", "number"}
Minimums == {Undefined, Num(0), Num(1)}
Maximums == {Undefined, Num(1)}
MultipleOfs == {Undefined, Num(2)}
Enums == {Undefined, Arr(<<>>), Arr(<<"1", "true">>), Arr(<<"true", "1">>)}
ReadOnlys == {Undefined, Bool(TRUE)}

NoCall ==
  [op |-> "new", arg |-> Undefined, outcome |-> "none", ret |-> Undefined,
   seen |-> <<>>]

\* new Property(device, name, propertyDescr)
PropertyInit ==
  /\ type \in Types
  /\ minimum \in Minimums
  /\ maximum \in Maximums
  /\ multipleOf \in MultipleOfs
  /\ enum \in Enums
  /\ readOnly \in ReadOnlys
  /\ value = Undefined
  /\ prevGetValue = Undefined
  /\ notifyCount = 0
  /\ call = NoCall

\* The value stored as it comes, whatever the type.
Coerce_AsIs(ty, v) == v

\* What setCachedValue(v) stores in this.value.
Coerce(ty, v) == IF ty = "boolean" THEN Bool(Truthy(v)) ELSE v

\* setCachedValue that keeps the cache when the value fails a check.
setCachedValue_Validating(v) ==
  LET ok == Truthy(readOnly) = FALSE
            /\ ~(NotNullish(minimum) /\ LessThan(v, minimum))
            /\ ~(NotNullish(maximum) /\ GreaterThan(v, maximum))
      new == IF ok THEN Coerce(type, v) ELSE value
  IN  /\ value' = new
      /\ call' = [op |-> "setCachedValue", arg |-> v, outcome |-> "returned",
                  ret |-> new, seen |-> <<>>]
      /\ UNCHANGED <<descrVars, prevGetValue, notifyCount>>
      /\ UNCHANGED <<actionVars, stepVars>>

\* Property.setCachedValue(value)
setCachedValue(v) ==
  /\ value' = Coerce(type, v)
  /\ call' = [op |-> "setCachedValue", arg |-> v, outcome |-> "returned",
              ret |-> Coerce(type, v), seen |-> <<>>]
  /\ UNCHANGED <<descrVars, prevGetValue, notifyCount>>
  /\ UNCHANGED <<actionVars, stepVars>>

\* oldValue != this.value in the place of !==.
HasChanged_Loose(oldValue, newValue) == ~LooseEquals(oldValue, newValue)

\* const hasChanged = oldValue !== this.value
HasChanged(oldValue, newValue) == ~StrictEquals(oldValue, newValue)

\* The comparison made with the value passed in, not with the cache after
\* the update.
Notified_BeforeCoercion(ty, oldValue, v) ==
  IF HasChanged(oldValue, v) THEN <<Coerce(ty, v)>> ELSE <<>>

\* The values the device sees in device.notifyPropertyChanged(this) during
\* setCachedValueAndNotify(v): the cache after the update, if it has changed.
Notified(ty, oldValue, v) ==
  IF HasChanged(oldValue, Coerce(ty, v)) THEN <<Coerce(ty, v)>> ELSE <<>>

\* Property.setCachedValueAndNotify(value)
setCachedValueAndNotify(v) ==
  /\ notifyCount + Len(Notified(type, value, v)) <= MaxNotify
  /\ value' = Coerce(type, v)
  /\ notifyCount' = notifyCount + Len(Notified(type, value, v))
  /\ call' = [op |-> "setCachedValueAndNotify", arg |-> v,
              outcome |-> "returned",
              ret |-> Bool(HasChanged(value, Coerce(type, v))),
              seen |-> Notified(type, value, v)]
  /\ UNCHANGED <<descrVars, prevGetValue>>
  /\ UNCHANGED <<actionVars, stepVars>>

\* Only the first member is looked at.
Includes_FirstOnly(items, s) == items # <<>> /\ Head(items) = s

\* Array.prototype.includes on an array of strings.
RECURSIVE Includes(_, _)
Includes(items, s) ==
  IF items = <<>> THEN FALSE
  ELSE Head(items) = s \/ Includes(Tail(items), s)

Abs(n) == IF n < 0 THEN 0 - n ELSE n

\* x - Math.round(x) === 0 for a positive double: x is an integer.
DblIsInteger(x) ==
  \/ x.e >= 0
  \/ /\ x.e >= 0 - 27
     /\ x.lo % Pow2(0 - x.e) = 0
  \/ /\ x.e < 0 - 27
     /\ x.e >= 0 - 52
     /\ x.lo = 0
     /\ x.hi % Pow2(0 - x.e - 27) = 0

\* The values and the multipleOf bounds of a property written with fractions.
FractionValues ==
  {Fractions[p] : p \in 1 .. MaxTenths} \cup {Num(n) : n \in Numbers}

FractionMultiples ==
  {Fractions[1], Fractions[2], Fractions[5], Num(2), Num(0 - 2), Num(3)}

\* The magnitude of a non-zero number as a double (the sign of a quotient
\* does not decide whether it is an integer).
AsDbl(x) == IF IsDbl(x) THEN x ELSE FromInt(IF x.n < 0 THEN 0 - x.n ELSE x.n)

\* v / k - Math.round(v / k) !== 0: the quotient is NaN (an operand is NaN,
\* or k is 0 and the difference is Infinity - Infinity) or not an integer.
NotMultiple(v, k) ==
  LET a == ToNumber(v)
      b == ToNumber(k)
  IN  \/ a = NaN
      \/ b = NaN
      \/ IF IsDbl(a) \/ IsDbl(b)
         THEN IF ~IsDbl(b) /\ b.n = 0 THEN TRUE
              ELSE IF ~IsDbl(a) /\ a.n = 0 THEN FALSE
              ELSE ~DblIsInteger(Divide(AsDbl(a), AsDbl(b)))
         ELSE b.n = 0 \/ Abs(a.n) % Abs(b.n) # 0

\* The read-only check made after the other checks.
Rejection_ReadOnlyLast(ro, mn, mx, mo, en, v) ==
  IF NotNullish(mn) /\ LessThan(v, mn)
    THEN Str("Value less than minimum: " \o TemplateString(mn))
  ELSE IF NotNullish(mx) /\ GreaterThan(v, mx)
    THEN Str("Value greater than maximum: " \o TemplateString(mx))
  ELSE IF NotNullish(mo) /\ NotMultiple(v, mo)
    THEN Str("Value is not a multiple of: " \o TemplateString(mo))
  ELSE IF Truthy(en) /\ Len(en.items) > 0
          /\ ~Includes(en.items, TemplateString(v))
    THEN Str("Invalid enum value")
  ELSE IF Truthy(ro) THEN Str("Read-only property")
  ELSE Undefined

\* The enum check made before the range and multipleOf checks.
Rejection_EnumFirst(ro, mn, mx, mo, en, v) ==
  IF Truthy(ro) THEN Str("Read-only property")
  ELSE IF Truthy(en) /\ Len(en.items) > 0
          /\ ~Includes(en.items, TemplateString(v))
    THEN Str("Invalid enum value")
  ELSE IF NotNullish(mn) /\ LessThan(v, mn)
    THEN Str("Value less than minimum: " \o TemplateString(mn))
  ELSE IF NotNullish(mx) /\ GreaterThan(v, mx)
    THEN Str("Value greater than maximum: " \o TemplateString(mx))
  ELSE IF NotNullish(mo) /\ NotMultiple(v, mo)
    THEN Str("Value is not a multiple of: " \o TemplateString(mo))
  ELSE Undefined

\* The checks of setValue(v) in their order: the message the promise is
\* rejected with, or Undefined when every check passes.
Rejection(ro, mn, mx, mo, en, v) ==
  IF Truthy(ro) THEN Str("Read-only property")
  ELSE IF NotNullish(mn) /\ LessThan(v, mn)
    THEN Str("Value less than minimum: " \o TemplateString(mn))
  ELSE IF NotNullish(mx) /\ GreaterThan(v, mx)
    THEN Str("Value greater than maximum: " \o TemplateString(mx))
  ELSE IF NotNullish(mo) /\ NotMultiple(v, mo)
    THEN Str("Value is not a multiple of: " \o TemplateString(mo))
  ELSE IF Truthy(en) /\ Len(en.items) > 0
          /\ ~Includes(en.items, TemplateString(v))
    THEN Str("Invalid enum value")
  ELSE Undefined

\* The cache written before the checks are made.
setValue_CacheFirst(v) ==
  LET why == Rejection(readOnly, minimum, maximum, multipleOf, enum, v)
  IN  /\ UNCHANGED <<actionVars, stepVars>>
      /\ notifyCount + Len(Notified(type, value, v)) <= MaxNotify
      /\ value' = Coerce(type, v)
      /\ notifyCount' = notifyCount + Len(Notified(type, value, v))
      /\ call' = IF why # Undefined
                 THEN [op |-> "setValue", arg |-> v, outcome |-> "rejected",
                       ret |-> why, seen |-> <<>>]
                 ELSE [op |-> "setValue", arg |-> v, outcome |-> "resolved",
                       ret |-> Coerce(type, v),
                       seen |-> Notified(type, value, v)]
      /\ UNCHANGED <<descrVars, prevGetValue>>

\* The promise resolved with the value passed in.
setValue_ResolveInput(v) ==
  LET why == Rejection(readOnly, minimum, maximum, multipleOf, enum, v)
  IN  /\ UNCHANGED <<actionVars, stepVars>>
      /\ IF why # Undefined
         THEN /\ call' = [op |-> "setValue", arg |-> v,
                          outcome |-> "rejected", ret |-> why, seen |-> <<>>]
              /\ UNCHANGED <<descrVars, value, prevGetValue, notifyCount>>
         ELSE /\ notifyCount + Len(Notified(type, value, v)) <= MaxNotify
              /\ value' = Coerce(type, v)
              /\ notifyCount' = notifyCount + Len(Notified(type, value, v))
              /\ call' = [op |-> "setValue", arg |-> v,
                          outcome |-> "resolved", ret |-> v,
                          seen |-> Notified(type, value, v)]
              /\ UNCHANGED <<descrVars, prevGetValue>>

\* Property.setValue(value)
setValue(v) ==
  LET why == Rejection(readOnly, minimum, maximum, multipleOf, enum, v)
  IN  /\ UNCHANGED <<actionVars, stepVars>>
      /\ IF why # Undefined
            THEN /\ call' = [op |-> "setValue", arg |-> v,
                          outcome |-> "rejected", ret |-> why, seen |-> <<>>]
              /\ UNCHANGED <<descrVars, value, prevGetValue, notifyCount>>
         ELSE /\ notifyCount + Len(Notified(type, value, v)) <= MaxNotify
              /\ value' = Coerce(type, v)
              /\ notifyCount' = notifyCount + Len(Notified(type, value, v))
              /\ call' = [op |-> "setValue", arg |-> v,
                          outcome |-> "resolved", ret |-> Coerce(type, v),
                          seen |-> Notified(type, value, v)]
              /\ UNCHANGED <<descrVars, prevGetValue>>


\* What getValue() leaves in prevGetValue.
Recorded(prev, v) == IF ~LooseEquals(v, prev) THEN v ELSE prev

\* Property.getValue()
getValue ==
  /\ prevGetValue' = Recorded(prevGetValue, value)
  /\ call' = [op |-> "getValue", arg |-> Undefined, outcome |-> "resolved",
              ret |-> value, seen |-> <<>>]
  /\ UNCHANGED <<descrVars, value, notifyCount>>
  /\ UNCHANGED <<actionVars, stepVars>>

\* ------------------------------------------------- statement by statement

\* The statements of setValue, with setCachedValueAndNotify inlined, of
\* start() and of finish(), in the order of the source.
SetValueSteps == <<"validate", "oldValue", "setCachedValue", "notify", "resolve">>

StartSteps == <<"status", "notify">>

\* finish() that notifies the device before it assigns timeCompleted.
FinishSteps_NotifyBeforeTime == <<"status", "notify", "timeCompleted">>

FinishSteps == <<"status", "timeCompleted", "notify">>

Steps(op) ==
  CASE op = "setValue" -> SetValueSteps
    [] op = "start" -> StartSteps
    [] op = "finish" -> FinishSteps

\* The statement the task t executes next.
Label(t) == Steps(t.op)[t.pc]

\* A setValue that awaits between its checks and its update.
Awaits_BeforeUpdate(op, label) == op = "setValue" /\ label = "oldValue"

\* Whether the operation gives up the thread before the statement: the
\* promise executor of setValue runs inside new Promise(), and none of the
\* three bodies holds an await or a callback of its own.
Awaits(op, label) == FALSE

InCall == {c \in Callers : tasks[c].op # "none"}

\* JavaScript runs one call at a time: the caller c gets the thread when
\* every other call in progress is parked at an await.
ThreadFree(c) ==
  \A d \in InCall \ {c} : Awaits(tasks[d].op, Label(tasks[d]))

At(c, op, label) ==
  /\ tasks[c].op = op
  /\ Label(tasks[c]) = label
  /\ ThreadFree(c)

\* The task of c after the statement it is at: the next statement, or the
\* return to the caller after the last one.
Advance(c) ==
  IF tasks[c].pc = Len(Steps(tasks[c].op)) THEN Idle
  ELSE [tasks[c] EXCEPT !.pc = @ + 1]

\* The values the callers write: below and above the minimum, and a string.
StepValues == {Num(0), Num(1), Num(2), Str("1")}

Operations ==
  {[op |-> "setValue", arg |-> v] : v \in StepValues}
    \cup {[op |-> "start", arg |-> Undefined],
          [op |-> "finish", arg |-> Undefined]}

\* The caller c calls property.setValue(v), action.start() or action.finish().
Call(c, o) ==
  /\ tasks[c].op = "none"
  /\ ThreadFree(c)
  /\ tickets < MaxCalls
  /\ tickets' = tickets + 1
  /\ tasks' = [tasks EXCEPT ![c] = [Idle EXCEPT !.op = o.op, !.arg = o.arg,
                                                !.pc = 1,
                                                !.ticket = tickets + 1]]
  /\ UNCHANGED <<actionVars, propertyVars, lastOk>>

\* setValue: the checks, each with its reject and return.
Validate(c) ==
  /\ At(c, "setValue", "validate")
  /\ LET why == Rejection(readOnly, minimum, maximum, multipleOf, enum,
                          tasks[c].arg)
     IN  IF why # Undefined
         THEN /\ call' = [op |-> "setValue", arg |-> tasks[c].arg,
                          outcome |-> "rejected", ret |-> why, seen |-> <<>>]
              /\ tasks' = [tasks EXCEPT ![c] = Idle]
         ELSE /\ tasks' = [tasks EXCEPT ![c] = Advance(c)]
              /\ UNCHANGED call
  /\ UNCHANGED <<actionVars, descrVars, value, prevGetValue, notifyCount,
                 tickets, lastOk>>

\* setCachedValueAndNotify: const oldValue = this.value
ReadOldValue(c) ==
  /\ At(c, "setValue", "oldValue")
  /\ tasks' = [tasks EXCEPT ![c] = [Advance(c) EXCEPT !.oldValue = value]]
  /\ UNCHANGED <<actionVars, propertyVars, tickets, lastOk>>

\* setCachedValueAndNotify: this.setCachedValue(value)
Update(c) ==
  /\ At(c, "setValue", "setCachedValue")
  /\ value' = Coerce(type, tasks[c].arg)
  /\ tasks' = [tasks EXCEPT ![c] = Advance(c)]
  /\ UNCHANGED <<actionVars, descrVars, prevGetValue, notifyCount, call,
                 tickets, lastOk>>

\* setCachedValueAndNotify: the comparison and the notification, in which
\* the device reads the property as it is now.
NotifyChanged(c) ==
  /\ At(c, "setValue", "notify")
  /\ IF HasChanged(tasks[c].oldValue, value)
     THEN /\ notifyCount' = notifyCount + 1
          /\ tasks' = [tasks EXCEPT ![c] = [Advance(c) EXCEPT !.seen = <<value>>]]
     ELSE /\ tasks' = [tasks EXCEPT ![c] = Advance(c)]
          /\ UNCHANGED notifyCount
  /\ UNCHANGED <<actionVars, descrVars, value, prevGetValue, call,
                 tickets, lastOk>>

\* setValue: resolve(this.value)
Resolve(c) ==
  /\ At(c, "setValue", "resolve")
  /\ call' = [op |-> "setValue", arg |-> tasks[c].arg, outcome |-> "resolved",
              ret |-> value, seen |-> tasks[c].seen]
  /\ lastOk' = IF tasks[c].ticket > lastOk.ticket
               THEN [ticket |-> tasks[c].ticket, arg |-> tasks[c].arg,
                     ret |-> value, by |-> c]
               ELSE lastOk
  /\ tasks' = [tasks EXCEPT ![c] = Advance(c)]
  /\ UNCHANGED <<actionVars, descrVars, value, prevGetValue, notifyCount,
                 tickets>>

\* start() and finish(): this.status = ...
SetStatus(c) ==
  /\ \/ At(c, "start", "status") /\ status' = "pending"
     \/ At(c, "finish", "status") /\ status' = "completed"
  /\ tasks' = [tasks EXCEPT ![c] = Advance(c)]
  /\ UNCHANGED <<timeRequested, timeCompleted, input, now, calls,
                 actionNotified, description>>
  /\ UNCHANGED <<propertyVars, tickets, lastOk>>

\* finish(): this.timeCompleted = timestamp()
SetTimeCompleted(c) ==
  /\ At(c, "finish", "timeCompleted")
  /\ timeCompleted' = timestamp
  /\ tasks' = [tasks EXCEPT ![c] = Advance(c)]
  /\ UNCHANGED <<status, timeRequested, input, now, calls, actionNotified,
                 description>>
  /\ UNCHANGED <<propertyVars, tickets, lastOk>>

\* start() and finish(): this.device.actionNotify(this), in which the device
\* reads the action as it is now.
NotifyAction(c) ==
  /\ At(c, "start", "notify") \/ At(c, "finish", "notify")
  /\ actionNotified' = actionNotify(status, timeCompleted)
  /\ calls' = Append(calls, tasks[c].op)
  /\ tasks' = [tasks EXCEPT ![c] = Advance(c)]
  /\ UNCHANGED <<status, timeRequested, timeCompleted, input, now,
                 description>>
  /\ UNCHANGED <<propertyVars, tickets, lastOk>>

\* ---------------------------------------------------------------- setters

\* No call is in progress on the thread: a setter can be called.
ThreadIdle == \A d \in InCall : Awaits(tasks[d].op, Label(tasks[d]))

\* The record of a setter call that has returned.
SetterCall(name, v) ==
  [op |-> name, arg |-> v, outcome |-> "returned", ret |-> Undefined,
   seen |-> <<>>]

\* Property.setType(value)
setType(v) ==
  /\ ThreadIdle
  /\ type' = v
  /\ call' = SetterCall("setType", Str(v))
  /\ UNCHANGED <<minimum, maximum, multipleOf, enum, readOnly, value,
                 prevGetValue, notifyCount>>
  /\ UNCHANGED <<actionVars, stepVars>>

\* Property.setMinimum(value)
setMinimum(v) ==
  /\ ThreadIdle
  /\ minimum' = v
  /\ call' = SetterCall("setMinimum", v)
  /\ UNCHANGED <<type, maximum, multipleOf, enum, readOnly, value,
                 prevGetValue, notifyCount>>
  /\ UNCHANGED <<actionVars, stepVars>>

\* Property.setMaximum(value)
setMaximum(v) ==
  /\ ThreadIdle
  /\ maximum' = v
  /\ call' = SetterCall("setMaximum", v)
  /\ UNCHANGED <<type, minimum, multipleOf, enum, readOnly, value,
                 prevGetValue, notifyCount>>
  /\ UNCHANGED <<actionVars, stepVars>>

\* Property.setEnum(value); a push onto the array the property shares with
\* its creator leaves the property in the same state as setEnum of the
\* longer array.
setEnum(v) ==
  /\ ThreadIdle
  /\ enum' = v
  /\ call' = SetterCall("setEnum", v)
  /\ UNCHANGED <<type, minimum, maximum, multipleOf, readOnly, value,
                 prevGetValue, notifyCount>>
  /\ UNCHANGED <<actionVars, stepVars>>

\* Property.setReadOnly(value)
setReadOnly(v) ==
  /\ ThreadIdle
  /\ readOnly' = v
  /\ call' = SetterCall("setReadOnly", v)
  /\ UNCHANGED <<type, minimum, maximum, multipleOf, enum, value,
                 prevGetValue, notifyCount>>
  /\ UNCHANGED <<actionVars, stepVars>>

\* Property.setMultipleOf(value)
setMultipleOf(v) ==
  /\ ThreadIdle
  /\ multipleOf' = v
  /\ call' = SetterCall("setMultipleOf", v)
  /\ UNCHANGED <<type, minimum, maximum, enum, readOnly, value,
                 prevGetValue, notifyCount>>
  /\ UNCHANGED <<actionVars, stepVars>>

\* ------------------------------------------------------- specifications

\* One property, with an action that is constructed and left alone.
Init ==
  /\ NoCalls
  /\ PropertyInit
  /\ ActionInit
  /\ now = 0
  /\ input = Undefined

Next ==
  \/ \E v \in Values : setValue(v)
  \/ \E v \in Values : setCachedValue(v)
  \/ \E v \in Values : setCachedValueAndNotify(v)
  \/ \E v \in Types : setType(v)
  \/ \E v \in Minimums : setMinimum(v)
  \/ \E v \in Maximums : setMaximum(v)
  \/ \E v \in Enums : setEnum(v)
  \/ \E v \in ReadOnlys : setReadOnly(v)
  \/ \E v \in MultipleOfs : setMultipleOf(v)

Spec == Init /\ [][Next]_vars

\* One action, with a property that is constructed and left alone.
ActionSpecInit ==
  /\ NoCalls
  /\ ActionInit
  /\ PropertyInit
  /\ type = "number"
  /\ minimum = Undefined
  /\ maximum = Undefined
  /\ multipleOf = Undefined
  /\ enum = Undefined
  /\ readOnly = Undefined

ActionSpecNext == start \/ finish \/ Tick \/ asActionDescription

ActionSpec == ActionSpecInit /\ [][ActionSpecNext]_vars

\* One property without constraints that is written and read.
ReadInit ==
  /\ NoCalls
  /\ ActionInit
  /\ now = 0
  /\ input = Undefined
  /\ type \in Types
  /\ minimum = Undefined
  /\ maximum = Undefined
  /\ multipleOf = Undefined
  /\ enum = Undefined
  /\ readOnly = Undefined
  /\ value = Undefined
  /\ prevGetValue = Undefined
  /\ notifyCount = 0
  /\ call = NoCall

ReadNext ==
  \/ \E v \in Values : setValue(v)
  \/ \E v \in Values : setCachedValue(v)
  \/ getValue
  \/ \E v \in Types : setType(v)

ReadSpec == ReadInit /\ [][ReadNext]_vars

\* One writable numeric property whose only constraint is multipleOf, written
\* with decimal fractions and integers.
MultipleInit ==
  /\ NoCalls
  /\ ActionInit
  /\ now = 0
  /\ input = Undefined
  /\ type = "number"
  /\ minimum = Undefined
  /\ maximum = Undefined
  /\ multipleOf \in FractionMultiples
  /\ enum = Undefined
  /\ readOnly = Undefined
  /\ value = Undefined
  /\ prevGetValue = Undefined
  /\ notifyCount = 0
  /\ call = NoCall

MultipleNext ==
  \/ \E v \in FractionValues : setValue(v)
  \/ \E v \in FractionMultiples : setMultipleOf(v)

MultipleSpec == MultipleInit /\ [][MultipleNext]_vars

\* One property and one action, called by several callers and run statement
\* by statement.
StepInit ==
  /\ NoCalls
  /\ ActionInit
  /\ now = 0
  /\ input = Undefined
  /\ type \in Types
  /\ minimum \in {Undefined, Num(1)}
  /\ maximum = Undefined
  /\ multipleOf = Undefined
  /\ enum = Undefined
  /\ readOnly = Undefined
  /\ value = Undefined
  /\ prevGetValue = Undefined
  /\ notifyCount = 0
  /\ call = NoCall

StepNext ==
  \/ \E c \in Callers, o \in Operations : Call(c, o)
  \/ \E c \in Callers : Validate(c)
  \/ \E c \in Callers : ReadOldValue(c)
  \/ \E c \in Callers : Update(c)
  \/ \E c \in Callers : NotifyChanged(c)
  \/ \E c \in Callers : Resolve(c)
  \/ \E c \in Callers : SetStatus(c)
  \/ \E c \in Callers : SetTimeCompleted(c)
  \/ \E c \in Callers : NotifyAction(c)
  \/ \E v \in Types : setType(v)
  \/ \E v \in {Undefined, Num(1)} : setMinimum(v)
  \/ Tick

StepSpec == StepInit /\ [][StepNext]_vars

\* --------------------------------------------------------------- claims

Range(seq) == {seq[i] : i \in 1 .. Len(seq)}

\* created < pending < completed
Rank(st) == CASE st = "created" -> 0 [] st = "pending" -> 1 [] st = "completed" -> 2

\* C1: over any sequence of start() and finish() calls the status only moves
\* forward along created -> pending -> completed: no step takes it back.
\* start() assigns 'pending' whatever the status is, so finish(); start()
\* takes a completed action back to pending.
C1_StatusMonotonic == [][Rank(status) <= Rank(status')]_vars

\* C2: timeCompleted is unset before the status first becomes completed, and
\* once it is set no later call overwrites it.  finish() assigns a fresh
\* timestamp on every call, so a second finish() overwrites the first one's.
C2_TimeCompletedSetOnce ==
  /\ []("finish" \notin Range(calls) => timeCompleted = Undefined)
  /\ [][timeCompleted # Undefined => timeCompleted' = timeCompleted]_vars

\* C7: the object asActionDescription() returns has no 'input' key when the
\* action was constructed with an undefined input, and no 'timeCompleted' key
\* as long as finish() has not been called.  The code tests the fields
\* against null, which undefined is not, so both keys are always there.
C7_DescriptionSparse ==
  [][description' # description =>
       /\ (input = Undefined => "input" \notin DOMAIN description')
       /\ ("finish" \notin Range(calls)
             => "timeCompleted" \notin DOMAIN description')]_vars

\* C8: over construct; start(); finish() the status is 'created' with
\* timeCompleted unset and no notification after construction, 'pending'
\* after start(), and 'completed' with timeCompleted set after finish(), and
\* device.actionNotify has then been invoked exactly twice.
C8_Lifecycle ==
  /\ (calls = <<>> =>
        /\ status = "created"
        /\ timeCompleted = Undefined
        /\ Len(actionNotified) = 0)
  /\ (calls = <<"start">> =>
        /\ status = "pending"
        /\ timeCompleted = Undefined
        /\ Len(actionNotified) = 1)
  /\ (calls = <<"start", "finish">> =>
        /\ status = "completed"
        /\ timeCompleted # Undefined
        /\ Len(actionNotified) = 2)

C8_Witness ==
  /\ calls = <<"start", "finish">>
  /\ status = "completed"
  /\ timeCompleted.at > timeRequested.at

\* A setValue(v) call has just been made: call' describes it.
SetValueStep == call'.op = "setValue"

\* x and y are the same value in the sense of ===: NaN is not the same as
\* itself, and an object is the same as that very object only.
Identical(x, y) == x = y /\ x.t # "NaN"

\* C3: device.notifyPropertyChanged is invoked exactly once by a setValue
\* call that changes the cached value, and not at all by one that is rejected
\* or whose value, after coercion, is identical to the value already cached.
C3_NotifyOncePerChange ==
  [][SetValueStep =>
       LET invoked == notifyCount' - notifyCount
       IN  /\ Len(call'.seen) = invoked
           /\ call'.outcome = "rejected" => invoked = 0
           /\ call'.outcome = "resolved" /\ Identical(value, value')
                => invoked = 0
           /\ call'.outcome = "resolved" /\ ~Identical(value, value')
                => invoked = 1]_vars

\* On a boolean property that holds true after one notification,
\* setValue(true) has resolved without a second one.
C3_Witness ==
  /\ type = "boolean"
  /\ call.op = "setValue"
  /\ call.arg = Bool(TRUE)
  /\ call.outcome = "resolved"
  /\ call.seen = <<>>
  /\ value = Bool(TRUE)
  /\ notifyCount = 1

\* The five messages a setValue call is rejected with.
RejectionKinds ==
  {"Read-only property", "Value less than minimum: ",
   "Value greater than maximum: ", "Value is not a multiple of: ",
   "Invalid enum value"}

\* The message, without the bound that follows it.
Kind(msg) ==
  CHOOSE k \in RejectionKinds :
    /\ Len(k) <= Len(msg.s)
    /\ SubSeq(msg.s, 1, Len(k)) = k

\* C4: a setValue call that is rejected, for any of the five reasons, leaves
\* the cached value as it was and invokes device.notifyPropertyChanged zero
\* times.
C4_RejectionLeavesCache ==
  [][SetValueStep /\ call'.outcome = "rejected" =>
       /\ value' = value
       /\ notifyCount' = notifyCount
       /\ call'.seen = <<>>]_vars

\* A value that differs from the cached one has been rejected by the enum
\* check, after the cache was written.
C4_Witness ==
  /\ call.op = "setValue"
  /\ call.outcome = "rejected"
  /\ call.ret = Str("Invalid enum value")
  /\ value = Num(1)
  /\ call.arg = Num(2)

\* C5: while readOnly is true every setValue call is rejected with the
\* read-only reason, whatever the value and whether or not it would pass the
\* other checks, and the cached value does not change.
C5_ReadOnlyRejectsAll ==
  [][SetValueStep /\ readOnly = Bool(TRUE) =>
       /\ call'.outcome = "rejected"
       /\ call'.ret = Str("Read-only property")
       /\ value' = value]_vars

\* A read-only property with a range has rejected a value below its minimum
\* as read-only, and one without any other constraint a value as well.
C5_Witness ==
  /\ readOnly = Bool(TRUE)
  /\ minimum = Num(1)
  /\ call.op = "setValue"
  /\ call.arg = Num(0)
  /\ call.outcome = "rejected"
  /\ call.ret = Str("Read-only property")
  /\ value = Num(2)

\* The inputs JavaScript takes for false.
Falsy == {Undefined, Null, NaN, Bool(FALSE), Num(0), Str("")}

\* The calls that update the cache.
CacheUpdated ==
  \/ call.op \in {"setCachedValue", "setCachedValueAndNotify"}
  \/ call.op = "setValue" /\ call.outcome = "resolved"

\* C6: on a boolean property, after any cache update with any input the
\* cached value is strictly true or strictly false, and equals the truthiness
\* of the input.
C6_BooleanCoercion ==
  type = "boolean" /\ CacheUpdated =>
    /\ value \in {Bool(TRUE), Bool(FALSE)}
    /\ value = Bool(call.arg \notin Falsy)

\* A boolean property holds true after the string "x" was written to it.
C6_Witness ==
  /\ type = "boolean"
  /\ call.op = "setValue"
  /\ call.outcome = "resolved"
  /\ call.arg = Str("x")
  /\ value = Bool(TRUE)

\* A writable numeric property with a minimum and/or a maximum and neither
\* multipleOf nor enum.
RangeOnly ==
  /\ type = "number"
  /\ ~Truthy(readOnly)
  /\ minimum # Undefined \/ maximum # Undefined
  /\ multipleOf = Undefined
  /\ enum = Undefined

\* C9: on such a property setValue(v) of a number v is rejected, the cache
\* unchanged, as below the minimum when v < m and as above the maximum when
\* v > M, and succeeds for every m <= v <= M, v = m and v = M included.
C9_RangeCheck ==
  [][SetValueStep /\ RangeOnly /\ call'.arg.t = "number" =>
       LET v == call'.arg.n
           below == minimum # Undefined /\ v < minimum.n
           above == maximum # Undefined /\ v > maximum.n
       IN  /\ below =>
                /\ call'.outcome = "rejected"
                /\ Kind(call'.ret) = "Value less than minimum: "
                /\ value' = value
           /\ above /\ ~below =>
                /\ call'.outcome = "rejected"
                /\ Kind(call'.ret) = "Value greater than maximum: "
                /\ value' = value
           /\ ~below /\ ~above =>
                /\ call'.outcome = "resolved"
                /\ value' = call'.arg]_vars

\* With minimum = maximum = 1 the value 1 has been accepted.
C9_Witness ==
  /\ RangeOnly
  /\ minimum = Num(1)
  /\ maximum = Num(1)
  /\ call.op = "setValue"
  /\ call.arg = Num(1)
  /\ call.outcome = "resolved"
  /\ value = Num(1)

\* The orderings of a sequence.
Orderings(seq) ==
  {[i \in 1 .. Len(seq) |-> seq[f[i]]] :
     f \in {g \in [1 .. Len(seq) -> 1 .. Len(seq)] :
              \A i, j \in 1 .. Len(seq) : g[i] = g[j] => i = j}}

\* A writable property with no minimum, maximum or multipleOf.
EnumOnly ==
  /\ ~Truthy(readOnly)
  /\ minimum = Undefined
  /\ maximum = Undefined
  /\ multipleOf = Undefined

\* C10: on such a property with a non-empty enum, setValue(v) succeeds if and
\* only if the string rendering of v is a member of enum, and would do the
\* same under every ordering of the members; with enum undefined or empty
\* every setValue succeeds.
C10_EnumCheck ==
  call.op = "setValue" /\ EnumOnly =>
    IF enum # Undefined /\ enum.items # <<>>
    THEN /\ call.outcome = "resolved"
              <=> TemplateString(call.arg) \in Range(enum.items)
         /\ call.outcome = "rejected" => call.ret = Str("Invalid enum value")
         /\ \A o \in Orderings(enum.items) :
              call.outcome = "resolved"
                <=> Rejection(readOnly, minimum, maximum, multipleOf, Arr(o),
                              call.arg) = Undefined
    ELSE call.outcome = "resolved"

\* The number 1 has been accepted as the second member "1" of the enum.
C10_Witness ==
  /\ EnumOnly
  /\ enum = Arr(<<"true", "1">>)
  /\ call.op = "setValue"
  /\ call.arg = Num(1)
  /\ call.outcome = "resolved"

\* A number in tenths: the decimal fraction a double was written as, or ten
\* times an integer.
Tenths(x) ==
  IF IsDbl(x) THEN CHOOSE p \in 1 .. MaxTenths : Fractions[p] = x
  ELSE 10 * x.n

\* v / k is an integer, for the decimal numbers v and k.
IsDecimalMultiple(v, k) == Tenths(v) % Abs(Tenths(k)) = 0

\* C11: with multipleOf = k and no other constraint, setValue(v) succeeds if
\* and only if v / k is within rounding tolerance of an integer: 0.3 is
\* accepted as a multiple of 0.1, and an integer v as a multiple of an integer
\* k exactly when k divides v.  The code compares the rounded quotient with
\* its nearest integer exactly, and 0.3 / 0.1 is 2.9999999999999996.
C11_MultipleOfTolerance ==
  call.op = "setValue" =>
    (call.outcome = "resolved" <=> IsDecimalMultiple(call.arg, multipleOf))

\* The checks of setValue in their fixed order, each with whether the value
\* v fails it on the property as it is.
Checks(v) ==
  << [kind |-> "Read-only property", fails |-> readOnly = Bool(TRUE)],
     [kind |-> "Value less than minimum: ",
      fails |-> minimum # Undefined /\ LessThan(v, minimum)],
     [kind |-> "Value greater than maximum: ",
      fails |-> maximum # Undefined /\ GreaterThan(v, maximum)],
     [kind |-> "Value is not a multiple of: ",
      fails |-> multipleOf # Undefined /\ NotMultiple(v, multipleOf)],
     [kind |-> "Invalid enum value",
      fails |-> /\ enum # Undefined
                /\ enum.items # <<>>
                /\ TemplateString(v) \notin Range(enum.items)] >>

Failing(v) == {i \in 1 .. 5 : Checks(v)[i].fails}

\* C12: a setValue call is rejected with the reason of the first check, in
\* the order read-only, minimum, maximum, multipleOf, enum, that the value
\* fails, whatever later checks it fails as well, and resolves when it fails
\* none: the promise is settled once.
C12_FirstFailingCheck ==
  call.op = "setValue" =>
    IF Failing(call.arg) = {} THEN call.outcome = "resolved"
    ELSE /\ call.outcome = "rejected"
         /\ Kind(call.ret) =
              Checks(call.arg)[CHOOSE i \in Failing(call.arg) :
                                 \A j \in Failing(call.arg) : i <= j].kind

\* -1 is below the minimum, no multiple of 2 and no member of the enum: it
\* has been rejected as below the minimum.
C12_Witness ==
  /\ readOnly = Undefined
  /\ minimum = Num(1)
  /\ multipleOf = Num(2)
  /\ enum = Arr(<<"1", "true">>)
  /\ call.op = "setValue"
  /\ call.arg = Num(0 - 1)
  /\ Failing(call.arg) = {2, 4, 5}
  /\ call.ret = Str("Value less than minimum: 1")

\* C13: a successful setValue resolves with the value the cache holds after
\* the update, not with the value passed in, and a getValue that follows at
\* once resolves with that same value.
C13_ResolvesWithCached ==
  /\ [](call.op = "setValue" /\ call.outcome = "resolved" =>
          /\ call.ret = value
          /\ type = "boolean" => call.ret = Bool(call.arg \notin Falsy))
  /\ [][/\ call.op = "setValue"
        /\ call.outcome = "resolved"
        /\ call'.op = "getValue"
        => call'.ret = call.ret]_vars

\* setValue(1) on a boolean property has resolved with true.
C13_Witness ==
  /\ type = "boolean"
  /\ call.op = "setValue"
  /\ call.outcome = "resolved"
  /\ call.arg = Num(1)
  /\ call.ret = Bool(TRUE)

\* C14: setCachedValue never invokes device.notifyPropertyChanged and makes
\* no check: it writes the value, coerced on a boolean property and as it is
\* otherwise, also on a read-only property and outside the constraints.
C14_SetCachedValueFrame ==
  [][call'.op = "setCachedValue" =>
       /\ notifyCount' = notifyCount
       /\ call'.seen = <<>>
       /\ value' = IF type = "boolean" THEN Bool(call'.arg \notin Falsy)
                   ELSE call'.arg]_vars

\* A read-only property with maximum 1 holds 2 after setCachedValue(2).
C14_Witness ==
  /\ readOnly = Bool(TRUE)
  /\ maximum = Num(1)
  /\ type = "number"
  /\ call.op = "setCachedValue"
  /\ call.arg = Num(2)
  /\ value = Num(2)
  /\ notifyCount = 0

\* C17: start() and finish() are open in every state, and each call invokes
\* device.actionNotify exactly once, with the status it has set: the
\* notifications are as many as the calls.
C17_NotifyPerCall ==
  /\ Len(actionNotified) = Len(calls)
  /\ \A i \in 1 .. Len(calls) :
       actionNotified[i].status =
         (IF calls[i] = "start" THEN "pending" ELSE "completed")
  /\ Len(calls) < MaxCalls => ENABLED start /\ ENABLED finish

\* start() was called twice and the pending notification sent twice.
C17_Witness ==
  /\ calls = <<"start", "start">>
  /\ Len(actionNotified) = 2
  /\ actionNotified[2].status = "pending"

\* C19: with a clock that does not run backwards, whenever the status is
\* 'completed' timeCompleted is set and is not earlier than timeRequested,
\* and timeRequested never changes.
C19_CompletedTimes ==
  /\ [](status = "completed" =>
          /\ timeCompleted # Undefined
          /\ timeCompleted.at >= timeRequested.at)
  /\ [][timeRequested' = timeRequested]_vars

\* The action was finished twice, the second time later than it was requested.
C19_Witness ==
  /\ status = "completed"
  /\ calls = <<"finish", "finish">>
  /\ timeCompleted.at > timeRequested.at

\* C20: setCachedValueAndNotify(v) returns true if and only if the cache
\* after coercion is not identical to the cache before, invokes
\* device.notifyPropertyChanged once when it returns true and not at all when
\* it returns false, and the first defined value written to a property never
\* written to is a change.
C20_ReturnsHasChanged ==
  [][call'.op = "setCachedValueAndNotify" =>
       /\ value' = IF type = "boolean" THEN Bool(call'.arg \notin Falsy)
                   ELSE call'.arg
       /\ call'.ret = Bool(~Identical(value, value'))
       /\ notifyCount' - notifyCount = (IF call'.ret.b THEN 1 ELSE 0)
       /\ Len(call'.seen) = notifyCount' - notifyCount
       /\ value = Undefined /\ call'.arg # Undefined => call'.ret.b]_vars

\* The string "1" written over the number 1 is a change.
C20_Witness ==
  /\ type = "number"
  /\ call.op = "setCachedValueAndNotify"
  /\ call.arg = Str("1")
  /\ call.ret = Bool(TRUE)
  /\ call.seen = <<Str("1")>>
  /\ notifyCount = 2

\* C18: getValue() resolves with the cached value, leaves the cache as it is,
\* notifies nobody, and records the value it returned: after every getValue
\* prevGetValue is the value returned, and both are undefined before any
\* write.  The code skips the recording when the cached value is loosely
\* equal (==) to prevGetValue, so "1" read after 1 leaves prevGetValue at 1.
C18_GetValueRecords ==
  call.op = "getValue" =>
    /\ call.ret = value
    /\ call.seen = <<>>
    /\ prevGetValue = call.ret

\* What the cache holds after v has been written.
Written(v) == IF type = "boolean" THEN Bool(v \notin Falsy) ELSE v

\* C15: setValue, start and finish run to completion: at most one caller is
\* inside a call, a setValue resolves with its own value written and shows
\* the device that value, and when no call is in progress the cache holds the
\* value of the successful setValue that was issued last.
C15_CallsAtomic ==
  /\ [](/\ Cardinality(InCall) <= 1
        /\ InCall = {} /\ lastOk.ticket > 0 => value = lastOk.ret)
  /\ [][\A c \in Callers :
          /\ tasks[c].op = "setValue" /\ tasks'[c].op = "none"
               /\ call'.outcome = "resolved"
             => /\ call'.ret = Written(tasks[c].arg)
                /\ call'.seen \in {<<>>, <<Written(tasks[c].arg)>>}
          /\ tasks[c].op # "none" /\ tasks'[c] = tasks[c]
             => /\ value' = value
                /\ status' = status
                /\ timeCompleted' = timeCompleted]_vars

\* Caller a has written 1 and then caller b has written 2, which the cache
\* holds.
C15_Witness ==
  /\ InCall = {}
  /\ tickets = 2
  /\ lastOk = [ticket |-> 2, arg |-> Num(2), ret |-> Num(2), by |-> "b"]
  /\ call.ret = Num(2)
  /\ notifyCount = 2
  /\ value = Num(2)

\* C16: when device.notifyPropertyChanged is invoked the cache holds the new
\* coerced value already, and when device.actionNotify is invoked the status
\* is the new one already and, in finish(), timeCompleted is set: the device
\* reads the state after the transition.
C16_UpdatedBeforeNotify ==
  [][/\ notifyCount' > notifyCount =>
          \E c \in Callers :
            /\ tasks[c].op = "setValue"
            /\ value = Written(tasks[c].arg)
            /\ tasks'[c].seen = <<Written(tasks[c].arg)>>
     /\ Len(actionNotified') > Len(actionNotified) =>
          LET seen == actionNotified'[Len(actionNotified')]
              op == calls'[Len(calls')]
          IN  /\ status = (IF op = "start" THEN "pending" ELSE "completed")
              /\ seen.status = status
              /\ seen.timeCompleted = timeCompleted
              /\ op = "finish" => seen.timeCompleted # Undefined]_vars

\* The device has seen true during setValue(1) on a boolean property and a
\* completed action with its timeCompleted during finish().
C16_Witness ==
  /\ type = "boolean"
  /\ call.op = "setValue"
  /\ call.arg = Num(1)
  /\ call.seen = <<Bool(TRUE)>>
  /\ calls = <<"finish">>
  /\ actionNotified = <<[status |-> "completed", timeCompleted |-> timeCompleted]>>
  /\ timeCompleted # Undefined

====
